---- MODULE Spec2Model ----
(***************************************************************************)
(* Fetch loops of the ArcGIS REST scripts.                                 *)
(*   script "02": 02_LEP_Data/fetch_LEP_data_REST.py                       *)
(*                (main -> fetch_arcgis_features -> fetch_with_pagination  *)
(*                 | fetch_single_request -> save_geojson)                 *)
(*   script "04": 04_Lot_Boundaries/fetch_Lot_Data_spatial_filter_REST.py  *)
(*                (get_features_by_polygon)                                *)
(* One run of one script is one behaviour.  The server holds server_count  *)
(* matching features, numbered 1..server_count in the order it returns     *)
(* them; a request with resultOffset o and resultRecordCount c is answered *)
(* with features o+1 .. min(o+c, server_count), a request without them     *)
(* with all of them.  Every HTTP request has an outcome chosen by the      *)
(* environment.                                                            *)
(***************************************************************************)
EXTENDS Integers, Sequences, FiniteSets, TLC

\* ---------------------------------------------------------------- bounds
MaxRetries == 2
MaxPageSize == 3
MaxCount == 7
MaxPolygons == 3

\* ------------------------------------------------------ program constants
\* page_size = 1000 in fetch_arcgis_features
DefaultPageSize == 1000
\* the literal 1000 of the truncation warning in fetch_single_request
RecordLimit == 1000
\* total_count = None after a failed count probe
None == -1

\* ------------------------------------------------------------ input sets
Scripts == {"02", "04", "04_quick"}
RetryCounts == 0..MaxRetries
SmallPageSizes == 1..MaxPageSize
SmallCounts == 0..MaxCount
\* counts around the record limit, and the 1000/1000/500 scenario
LargeCounts == {RecordLimit - 1, RecordLimit, RecordLimit + 1,
                2 * DefaultPageSize + DefaultPageSize \div 2}
\* outcomes of a data request
Outcomes == {"ok", "error", "malformed", "no_features"}
\* outcomes of the metadata probe
MetaOutcomes == {"true", "false", "absent", "fail"}
\* outcomes of the count probe
CountOutcomes == {"ok", "absent", "error"}
\* outcomes of gpd.read_file
LoadOutcomes == {"ok", "unreadable"}
\* reference systems of the boundary file ("none": the file carries no CRS)
CRSs == {"EPSG:4326", "EPSG:28356", "none"}

\* ---------------------------------------------------------------- server
Min(a, b) == IF a < b THEN a ELSE b

Features(n) == [i \in 1..n |-> i]

ServerPage(n, off, cnt) ==
    IF off >= n THEN <<>> ELSE SubSeq(Features(n), off + 1, Min(off + cnt, n))

\* ------------------------------------------------- pure parts of the code
Parsed_Strict(o) == o = "ok"

\* response.json() succeeded: the body was parsed
Parsed(o) == o \in {"ok", "no_features"}

Caught_NetworkOnly(o) == o = "error"

\* raised inside the try block and caught by `except Exception`
Caught(o) == o \in {"error", "malformed"}

\* data.get('features', [])
GetFeatures(o, page) == IF o = "ok" THEN page ELSE <<>>

NextAttempt_Stuck(att) == att

\* for attempt in range(max_retries): one more attempt has been issued
NextAttempt(att) == att + 1

\* if attempt < max_retries - 1: retry, else: raise
WillRetry(att, maxr) == att < maxr - 1

Extend_Overwrite(all, got) == got

\* all_features.extend(features)
Extend(all, got) == all \o got

LastPage_Inclusive(got, psize) == Len(got) <= psize

LastPage_Never(got, psize) == FALSE

\* if len(features) < page_size: break
LastPage(got, psize) == Len(got) < psize

NextOffset_Stuck(off, psize) == off

NextOffset_Assign(off, psize) == psize

\* offset += page_size
NextOffset(off, psize) == off + psize

PauseBetweenPages_None(more) == FALSE

\* time.sleep(0.5) at the end of the while body, reached only when the loop
\* goes on to the next page
PauseBetweenPages(more) == more

SupportsPagination_DefaultTrue(m) == m \in {"true", "absent"}

\* metadata.get('advancedQueryCapabilities', {}).get('supportsPagination', False)
\* and `except: return False`
SupportsPagination(m) == m = "true"

Warns_Strict(got) == Len(got) > RecordLimit

\* if len(features) >= 1000: print warning
Warns(got) == Len(got) >= RecordLimit

NeedsPagination_Inclusive(tc, csize) == tc /= None /\ tc /= 0 /\ tc >= csize

\* needs_pagination = total_count and total_count > chunk_size
NeedsPagination(tc, csize) == tc /= None /\ tc /= 0 /\ tc > csize

\* body of the while loop after a parsed response: break on an empty page,
\* extend, break on a short page (or when not paginating), else advance
PageStep(all, off, got, psize, paginating) ==
    IF got = <<>> THEN [all |-> all, offset |-> off, more |-> FALSE]
    ELSE IF ~paginating \/ LastPage(got, psize)
         THEN [all |-> Extend(all, got), offset |-> off, more |-> FALSE]
         ELSE [all |-> Extend(all, got), offset |-> NextOffset(off, psize),
               more |-> TRUE]

MainOutput_Always(raised, all) == <<all>>

\* main of script 02: save_geojson runs only if fetch_arcgis_features returned
MainOutput(raised, all) == IF raised THEN <<>> ELSE <<all>>

\* step 5 of get_features_by_polygon: if all_features: write the file
SaveIfAny(all) == IF all /= <<>> THEN <<all>> ELSE <<>>

Dissolve_OffByOne(gdf) ==
    IF gdf.rows > 2
    THEN [rows |-> 1, crs |-> gdf.crs, ops |-> Append(gdf.ops, "dissolve")]
    ELSE gdf

\* boundary_gdf.dissolve() if len(boundary_gdf) > 1
Dissolve(gdf) ==
    IF gdf.rows > 1
    THEN [rows |-> 1, crs |-> gdf.crs, ops |-> Append(gdf.ops, "dissolve")]
    ELSE gdf

\* boundary_gdf.to_crs('EPSG:4326') if boundary_gdf.crs != 'EPSG:4326'
ToCrs(gdf) ==
    IF gdf.crs /= "EPSG:4326"
    THEN [rows |-> gdf.rows, crs |-> "EPSG:4326",
          ops |-> Append(gdf.ops, "to_crs")]
    ELSE gdf

\* gpd.read_file(polygon_file)
ReadFile(file) == [rows |-> file.rows, crs |-> file.crs, ops |-> <<>>]

LoadFails_ReadOnly(l, file) == l /= "ok"

\* the exceptions of step 1: read_file fails; to_crs raises on a frame
\* without CRS; geometry.iloc[0] raises on a frame without rows
LoadFails(l, file) == l /= "ok" \/ file.crs = "none" \/ file.rows = 0

\* ----------------------------------------------------------------- state
VARIABLES
    script,             \* which script runs
    pc,                 \* position of the run
    max_retries,        \* argument of fetch_arcgis_features
    page_size,          \* argument of fetch_with_pagination
    chunk_size,         \* argument of get_features_by_polygon
    server_count,       \* number of matching features on the server
    metadata,           \* outcome of the metadata probe ("none" before it)
    supports_pagination,
    total_count,        \* result of the count probe
    polygon_file,       \* content of the boundary file
    load,               \* outcome of gpd.read_file ("none" before it)
    boundary_gdf,       \* the boundary GeoDataFrame
    all_features,
    offset,
    attempt,            \* attempts issued so far for the current request
    features,           \* features of the latest parsed response
    outcome,            \* outcome of the latest data request
    clean,              \* no data request of this run has failed
    pages_ok,           \* successful paged requests
    fetched,            \* offsets fetched successfully
    used,               \* kinds of data request issued
    warned,             \* truncation warning printed
    error,              \* exception that ended the run
    output_file,        \* <<>> if not written, else <<features written>>
    lastReq,            \* kind of the latest HTTP request
    prevReq,            \* kind of the HTTP request before it
    gap,                \* what separated the latest request from prevReq
    slept               \* a sleep ran since the latest request

vars == <<script, pc, max_retries, page_size, chunk_size, server_count,
          metadata, supports_pagination, total_count, polygon_file, load,
          boundary_gdf, all_features, offset, attempt, features, outcome, clean, pages_ok,
          fetched, used, warned, error, output_file, lastReq, prevReq, gap,
          slept>>

NoBoundary == [rows |-> 0, crs |-> "EPSG:4326", ops |-> <<>>]

NoFile == [rows |-> 0, crs |-> "none"]

InitCommon ==
    /\ load = "none"
    /\ boundary_gdf = NoBoundary
    /\ metadata = "none"
    /\ supports_pagination = FALSE
    /\ total_count = None
    /\ all_features = <<>>
    /\ offset = 0
    /\ attempt = 0
    /\ features = <<>>
    /\ outcome = "none"
    /\ clean = TRUE
    /\ pages_ok = 0
    /\ fetched = {}
    /\ used = {}
    /\ warned = FALSE
    /\ error = "none"
    /\ output_file = <<>>
    /\ lastReq = "none"
    /\ prevReq = "none"
    /\ gap = "none"
    /\ slept = FALSE

Init02 ==
    /\ script = "02"
    /\ pc = "main"
    /\ max_retries \in RetryCounts
    /\ \/ page_size \in SmallPageSizes /\ server_count \in SmallCounts
       \/ page_size = DefaultPageSize /\ server_count \in LargeCounts
    /\ chunk_size = 0
    /\ polygon_file = NoFile

Init04 ==
    /\ script = "04"
    /\ pc = "load_boundary"
    /\ max_retries = 0
    /\ page_size = 0
    /\ chunk_size \in SmallPageSizes
    /\ server_count \in SmallCounts
    /\ polygon_file \in [rows : 0..MaxPolygons, crs : CRSs]

Init04Quick ==
    /\ script = "04_quick"
    /\ pc = "quick_load"
    /\ max_retries = 0
    /\ page_size = 0
    /\ chunk_size = 0
    /\ server_count \in SmallCounts
    /\ polygon_file \in [rows : 0..MaxPolygons, crs : CRSs]

Init == InitCommon /\ (Init02 \/ Init04 \/ Init04Quick)

\* bookkeeping of one HTTP request of kind k, followed by a sleep iff sleeps
Issue(k, sleeps) ==
    /\ lastReq' = k
    /\ prevReq' = lastReq
    /\ gap' = IF lastReq = "none" THEN "first"
              ELSE IF slept THEN "slept" ELSE "unslept"
    /\ slept' = sleeps

\* ------------------------------------------------------------- script 02
\* main -> fetch_arcgis_features -> check_pagination_support, and the entry
\* of the chosen fetch function up to its first request
CheckPaginationSupport(m) ==
    /\ load' = load
    /\ script = "02" /\ pc = "main"
    /\ Issue("metadata", FALSE)
    /\ metadata' = m
    /\ supports_pagination' = SupportsPagination(m)
    /\ IF max_retries > 0
       THEN /\ pc' = IF SupportsPagination(m) THEN "fetch_with_pagination"
                     ELSE "fetch_single_request"
            /\ UNCHANGED <<error, output_file>>
       ELSE \* range(0) is empty: `data` is unbound in fetch_with_pagination,
            \* fetch_single_request returns None and len(None) raises
            /\ pc' = "failed"
            /\ error' = IF SupportsPagination(m) THEN "UnboundLocalError"
                        ELSE "TypeError"
            /\ output_file' = MainOutput(TRUE, all_features)
    /\ UNCHANGED <<script, max_retries, page_size, chunk_size, server_count,
                   polygon_file,
                   total_count, boundary_gdf, all_features, offset, attempt,
                   features, outcome, clean, pages_ok, fetched, used, warned>>

\* one iteration of the retry loop of fetch_with_pagination, with the rest
\* of the while body (and the return to main) when the response was parsed
PageAttempt(o) ==
    /\ load' = load
    /\ script = "02" /\ pc = "fetch_with_pagination"
    /\ attempt < max_retries
    /\ outcome' = o
    /\ clean' = (clean /\ o = "ok")
    /\ used' = used \cup {"paged"}
    /\ warned' = warned
    /\ IF Parsed(o)
       THEN LET got == GetFeatures(o, ServerPage(server_count, offset, page_size))
                r == PageStep(all_features, offset, got, page_size, TRUE)
            IN  /\ features' = got
                /\ all_features' = r.all
                /\ offset' = r.offset
                /\ pages_ok' = pages_ok + 1
                /\ fetched' = fetched \cup {offset}
                /\ Issue("paged", PauseBetweenPages(r.more))
                /\ attempt' = IF r.more THEN 0 ELSE NextAttempt(attempt)
                /\ pc' = IF r.more THEN "fetch_with_pagination" ELSE "done"
                /\ output_file' = IF r.more THEN output_file
                                  ELSE MainOutput(FALSE, r.all)
                /\ error' = error
       ELSE /\ UNCHANGED <<features, all_features, offset, pages_ok, fetched>>
            /\ attempt' = NextAttempt(attempt)
            /\ IF Caught(o) /\ WillRetry(attempt, max_retries)
               THEN /\ Issue("paged", TRUE)
                    /\ UNCHANGED <<pc, error, output_file>>
               ELSE /\ Issue("paged", FALSE)
                    /\ pc' = "failed"
                    /\ error' = IF Caught(o) THEN "Failed to fetch data"
                                ELSE "JSONDecodeError"
                    /\ output_file' = MainOutput(TRUE, all_features)
    /\ UNCHANGED <<script, max_retries, page_size, chunk_size, server_count,
                   polygon_file,
                   metadata, supports_pagination, total_count, boundary_gdf>>

\* one iteration of the retry loop of fetch_single_request
SingleAttempt(o) ==
    /\ load' = load
    /\ script = "02" /\ pc = "fetch_single_request"
    /\ attempt < max_retries
    /\ outcome' = o
    /\ clean' = (clean /\ o = "ok")
    /\ used' = used \cup {"unbounded"}
    /\ attempt' = NextAttempt(attempt)
    /\ IF Parsed(o)
       THEN LET got == GetFeatures(o, Features(server_count))
            IN  /\ features' = got
                /\ warned' = Warns(got)
                /\ all_features' = got
                /\ Issue("unbounded", FALSE)
                /\ pc' = "done"
                /\ output_file' = MainOutput(FALSE, got)
                /\ error' = error
       ELSE /\ UNCHANGED <<features, warned, all_features>>
            /\ IF Caught(o) /\ WillRetry(attempt, max_retries)
               THEN /\ Issue("unbounded", TRUE)
                    /\ UNCHANGED <<pc, error, output_file>>
               ELSE /\ Issue("unbounded", FALSE)
                    /\ pc' = "failed"
                    /\ error' = IF Caught(o) THEN "Failed to fetch data"
                                ELSE "JSONDecodeError"
                    /\ output_file' = MainOutput(TRUE, all_features)
    /\ UNCHANGED <<script, max_retries, page_size, chunk_size, server_count,
                   polygon_file,
                   metadata, supports_pagination, total_count, boundary_gdf,
                   offset, pages_ok, fetched>>

\* ------------------------------------------------------------- script 04
\* step 1 of get_features_by_polygon: read, dissolve, reproject, take
\* geometry.iloc[0]; any exception prints the error and returns None
LoadBoundary(l) ==
    /\ script = "04" /\ pc = "load_boundary"
    /\ load' = l
    /\ IF ~LoadFails(l, polygon_file)
       THEN /\ boundary_gdf' = ToCrs(Dissolve(ReadFile(polygon_file)))
            /\ pc' = "count"
            /\ error' = error
       ELSE /\ boundary_gdf' = boundary_gdf
            /\ pc' = "returned_none"
            /\ error' = "Error loading boundary polygon"
    /\ UNCHANGED <<script, max_retries, page_size, chunk_size, server_count,
                   polygon_file,
                   metadata, supports_pagination, total_count, all_features,
                   offset, attempt, features, outcome, clean, pages_ok,
                   fetched, used, warned, output_file, lastReq, prevReq, gap,
                   slept>>

\* step 3: the returnCountOnly probe
CountProbe(c) ==
    /\ load' = load
    /\ script = "04" /\ pc = "count"
    /\ Issue("count", c /= "error")
    /\ total_count' = IF c = "ok" THEN server_count
                      ELSE IF c = "absent" THEN 0 ELSE None
    /\ pc' = "fetch"
    /\ UNCHANGED <<script, max_retries, page_size, chunk_size, server_count,
                   polygon_file,
                   metadata, supports_pagination, boundary_gdf, all_features,
                   offset, attempt, features, outcome, clean, pages_ok,
                   fetched, used, warned, error, output_file>>

\* step 4: one iteration of the while loop, and step 5 when the loop ends
FetchChunk(o) ==
    /\ load' = load
    /\ script = "04" /\ pc = "fetch"
    /\ outcome' = o
    /\ clean' = (clean /\ o = "ok")
    /\ LET paginating == NeedsPagination(total_count, chunk_size)
           kind == IF paginating THEN "paged" ELSE "unbounded"
           page == IF paginating
                   THEN ServerPage(server_count, offset, chunk_size)
                   ELSE Features(server_count)
       IN  /\ used' = used \cup {kind}
           /\ IF Parsed(o)
              THEN LET got == GetFeatures(o, page)
                       r == PageStep(all_features, offset, got, chunk_size,
                                     paginating)
                   IN  /\ features' = got
                       /\ all_features' = r.all
                       /\ offset' = r.offset
                       /\ pages_ok' = pages_ok + 1
                       /\ fetched' = fetched \cup {offset}
                       /\ Issue(kind, PauseBetweenPages(r.more))
                       /\ pc' = IF r.more THEN "fetch"
                                ELSE IF r.all /= <<>> THEN "done"
                                ELSE "returned_none"
                       /\ output_file' = IF r.more THEN output_file
                                         ELSE SaveIfAny(r.all)
              ELSE /\ UNCHANGED <<features, all_features, offset, pages_ok,
                                  fetched>>
                   /\ Issue(kind, FALSE)
                   /\ pc' = IF all_features /= <<>> THEN "done"
                            ELSE "returned_none"
                   /\ output_file' = SaveIfAny(all_features)
    /\ UNCHANGED <<script, max_retries, page_size, chunk_size, server_count,
                   polygon_file,
                   metadata, supports_pagination, total_count, boundary_gdf,
                   attempt, warned, error>>

\* quick_spatial_query: load and prepare the polygon; no try block, an
\* exception ends the call
QuickLoad(l) ==
    /\ script = "04_quick" /\ pc = "quick_load"
    /\ load' = l
    /\ IF ~LoadFails(l, polygon_file)
       THEN /\ boundary_gdf' = ToCrs(Dissolve(ReadFile(polygon_file)))
            /\ pc' = "quick_query"
            /\ error' = error
       ELSE /\ boundary_gdf' = boundary_gdf
            /\ pc' = "failed"
            /\ error' = "boundary exception"
    /\ UNCHANGED <<script, max_retries, page_size, chunk_size, server_count,
                   polygon_file, metadata, supports_pagination, total_count,
                   all_features, offset, attempt, features, outcome, clean,
                   pages_ok, fetched, used, warned, output_file, lastReq,
                   prevReq, gap, slept>>

\* quick_spatial_query: the one request, raise_for_status, json, save
QuickQuery(o) ==
    /\ script = "04_quick" /\ pc = "quick_query"
    /\ load' = load
    /\ outcome' = o
    /\ clean' = (clean /\ o = "ok")
    /\ used' = used \cup {"unbounded"}
    /\ Issue("unbounded", FALSE)
    /\ IF Parsed(o)
       THEN LET got == GetFeatures(o, Features(server_count))
            IN  /\ features' = got
                /\ all_features' = got
                /\ output_file' = <<got>>
                /\ pc' = "done"
                /\ error' = error
       ELSE /\ UNCHANGED <<features, all_features, output_file>>
            /\ pc' = "failed"
            /\ error' = "request exception"
    /\ UNCHANGED <<script, max_retries, page_size, chunk_size, server_count,
                   polygon_file, metadata, supports_pagination, total_count,
                   boundary_gdf, offset, attempt, pages_ok, fetched, warned>>

Next ==
    \/ \E m \in MetaOutcomes : CheckPaginationSupport(m)
    \/ \E o \in Outcomes : PageAttempt(o)
    \/ \E o \in Outcomes : SingleAttempt(o)
    \/ \E l \in LoadOutcomes : LoadBoundary(l)
    \/ \E c \in CountOutcomes : CountProbe(c)
    \/ \E o \in Outcomes : FetchChunk(o)
    \/ \E l \in LoadOutcomes : QuickLoad(l)
    \/ \E o \in Outcomes : QuickQuery(o)

Spec == Init /\ [][Next]_vars

\* the scripts are sequential and every request returns or times out
\* (timeout=10/30/60), so a run that can take a step takes it
FairSpec == Spec /\ WF_vars(Next)

\* ---------------------------------------------------------------- claims
Paginated02 == script = "02" /\ supports_pagination
Single02 == script = "02" /\ metadata /= "none" /\ ~supports_pagination
DataKinds == {"paged", "unbounded"}
Ceil(n, p) == (n + p - 1) \div p

\* C1: when pagination is supported and no request fails, the run of
\* fetch_with_pagination ends by returning exactly the server's features,
\* each once, in the order the server returned them (it ends otherwise only
\* when max_retries = 0, where no request is issued at all).
C1_ReturnsAllInOrder ==
    (Paginated02 /\ clean) =>
        /\ pc = "done" => all_features = Features(server_count)
        /\ pc = "failed" => max_retries = 0

C1_Witness ==
    /\ Paginated02 /\ clean /\ pc = "done"
    /\ page_size = DefaultPageSize
    /\ server_count = 2 * DefaultPageSize + DefaultPageSize \div 2
    /\ pages_ok = 3
    /\ Len(all_features) = server_count

\* C2 as stated: with pagination and no failure, fetch_with_pagination
\* issues exactly ceil(N/P) successful page requests.
C2_CeilRequests ==
    (Paginated02 /\ clean /\ pc = "done") =>
        pages_ok = Ceil(server_count, page_size)

\* C2 as amended: with pagination and no failure, fetch_with_pagination
\* issues exactly floor(N/P) + 1 successful page requests; when N is a
\* multiple of P (N = 0 included) the last of them returns the empty page.
C2_FloorPlusOneRequests ==
    (Paginated02 /\ clean /\ pc = "done") =>
        /\ pages_ok = server_count \div page_size + 1
        /\ server_count % page_size /= 0 =>
               pages_ok = Ceil(server_count, page_size)
        /\ server_count % page_size = 0 => features = <<>>

C2_Witness ==
    /\ Paginated02 /\ clean /\ pc = "done"
    /\ server_count > 0 /\ server_count % page_size = 0
    /\ pages_ok = server_count \div page_size + 1

\* C3: after a parsed page of fetch_with_pagination with zero features or
\* fewer than page_size features the run is over and no request can be
\* issued any more; after a page with exactly page_size features the next
\* request, at the next offset, is the only thing that can happen.
C3_StopsExactlyOnShortPage ==
    (Paginated02 /\ lastReq = "paged" /\ Parsed(outcome)) =>
        IF Len(features) < page_size
        THEN /\ pc = "done"
             /\ ~ENABLED (\E o \in Outcomes : PageAttempt(o) \/ SingleAttempt(o))
        ELSE /\ Len(features) = page_size
             /\ pc = "fetch_with_pagination"
             /\ attempt = 0
             /\ offset = pages_ok * page_size
             /\ offset \notin fetched
             /\ ENABLED (\E o \in Outcomes : PageAttempt(o))

C3_Witness ==
    /\ Paginated02 /\ pc = "done" /\ outcome = "ok"
    /\ Len(features) > 0 /\ Len(features) < page_size
    /\ pages_ok >= 2

\* C4: in script 02 the number of attempts made for one page (one offset,
\* or the single request) never exceeds max_retries, and an offset fetched
\* successfully is never requested again.
C4_AttemptsBounded ==
    script = "02" =>
        /\ attempt <= max_retries
        /\ pc = "fetch_with_pagination" => offset \notin fetched
        /\ pc = "fetch_single_request" => ~Parsed(outcome)
        /\ Cardinality(fetched) = pages_ok

C4_Witness ==
    /\ script = "02" /\ pc = "failed"
    /\ max_retries >= 2 /\ attempt = max_retries
    /\ pages_ok >= 1

\* C5: in script 02, once all max_retries attempts for a page have failed
\* the run has ended with the raised failure and no output file is written,
\* also when earlier pages were fetched.
C5_NoSaveAfterExhaustedRetries ==
    (script = "02" /\ attempt = max_retries /\ Caught(outcome)) =>
        /\ pc = "failed"
        /\ error = "Failed to fetch data"
        /\ output_file = <<>>

C5_Witness ==
    /\ script = "02" /\ attempt = max_retries /\ Caught(outcome)
    /\ pc = "failed" /\ pages_ok >= 1 /\ all_features /= <<>>
    /\ output_file = <<>>

\* C6 as stated: in get_features_by_polygon, if a page request fails the
\* operation fails and the output file is not written.
C6_NoPartialPersisted ==
    (script = "04" /\ lastReq \in DataKinds /\ ~Parsed(outcome)) =>
        /\ pc = "returned_none"
        /\ output_file = <<>>

\* C7: fetch_arcgis_features picks the strategy from the metadata probe
\* before any data request: paged requests only if the probe reported
\* supportsPagination true, the single unbounded request only otherwise
\* (probe failed, field false or absent); never both in one run.
C7_StrategyChosenOnce ==
    script = "02" =>
        /\ supports_pagination <=> metadata = "true"
        /\ metadata = "none" => used = {} /\ lastReq = "none"
        /\ used \subseteq (IF supports_pagination THEN {"paged"}
                           ELSE {"unbounded"})
        /\ pc = "fetch_with_pagination" => supports_pagination
        /\ pc = "fetch_single_request" => ~supports_pagination

C7_Witness ==
    /\ script = "02" /\ metadata = "absent" /\ pc = "done"
    /\ used = {"unbounded"}

\* C8: a successful fetch_single_request warns iff it received at least
\* 1000 features, and returns (and main saves) all received features.
C8_WarnIffAtLeastLimit ==
    /\ (Single02 /\ pc = "done") =>
           /\ warned <=> Len(all_features) >= RecordLimit
           /\ all_features = features
           /\ outcome = "ok" => all_features = Features(server_count)
           /\ output_file = <<all_features>>
    /\ warned => Single02 /\ pc = "done"

C8_Witness ==
    /\ Single02 /\ pc = "done" /\ warned
    /\ server_count = RecordLimit
    /\ Len(all_features) = RecordLimit
    /\ output_file = <<all_features>>

\* C9 as stated: every HTTP request but the first of a run is preceded by
\* a sleep since the request before it.
C9_PauseBeforeEveryRequest == gap /= "unslept"

\* C9 as amended: a sleep separates a data request from the next request
\* (0.5 s between pages, 2 s before a retry), and in script 04 a successful
\* count probe from the first data request; no sleep separates the metadata
\* probe (script 02) or a failed count probe (script 04) from the first
\* data request.
C9_PauseBetweenDataRequests ==
    /\ prevReq \in DataKinds => gap = "slept"
    /\ (prevReq = "count" /\ total_count /= None) => gap = "slept"
    /\ (prevReq = "count" /\ total_count = None) => gap = "unslept"
    /\ prevReq = "metadata" => gap = "unslept"
    /\ prevReq = "none" => gap \in {"none", "first"}

C9_Witness ==
    /\ script = "02" /\ prevReq = "paged" /\ lastReq = "paged"
    /\ gap = "slept" /\ outcome = "ok" /\ pages_ok >= 2

\* C10 as stated: in script 02 a response body that cannot be parsed ends
\* the whole fetch with a failure.
C10_MalformedIsTerminal ==
    (script = "02" /\ outcome = "malformed") => pc = "failed"

\* C10 as amended: in script 02 a response body that cannot be parsed is
\* handled like any other failed attempt: before the last attempt it is
\* retried after the sleep, on the last attempt it ends the fetch with the
\* failure "Failed to fetch data".
C10_MalformedIsRetried ==
    (script = "02" /\ outcome = "malformed") =>
        IF attempt < max_retries
        THEN /\ pc \in {"fetch_with_pagination", "fetch_single_request"}
             /\ slept
             /\ error = "none"
        ELSE /\ pc = "failed"
             /\ error = "Failed to fetch data"

C10_Witness ==
    /\ script = "02" /\ outcome = "malformed"
    /\ pc = "fetch_with_pagination"
    /\ attempt >= 1 /\ attempt < max_retries /\ slept
    /\ pages_ok >= 1

\* C11: every run of fetch_arcgis_features with max_retries >= 1 comes to an
\* end, whatever requests fail: it returns the feature collection ("done")
\* or raises the terminal error ("failed").
C11_Terminates ==
    (script = "02" /\ max_retries >= 1) ~> (pc \in {"done", "failed"})

C11_Witness ==
    /\ script = "02" /\ max_retries >= 2 /\ pc = "done"
    /\ ~clean /\ pages_ok >= 2 /\ attempt >= 2

\* C12: if loading or preparing the boundary file fails in
\* get_features_by_polygon (unreadable file, no rows, no CRS to reproject
\* from), the run is over at once: the error is reported, None is returned,
\* nothing is retried, no HTTP request was issued and no file is written.
C12_LoadFailureAborts ==
    (/\ script = "04" /\ load /= "none"
     /\ \/ load = "unreadable"
        \/ polygon_file.rows = 0
        \/ polygon_file.crs = "none") =>
        /\ pc = "returned_none"
        /\ error = "Error loading boundary polygon"
        /\ lastReq = "none" /\ used = {}
        /\ output_file = <<>>
        /\ ~ENABLED Next

C12_Witness ==
    /\ script = "04" /\ load = "unreadable"
    /\ polygon_file.rows >= 1 /\ polygon_file.crs = "EPSG:4326"
    /\ pc = "returned_none" /\ lastReq = "none" /\ output_file = <<>>

\* C13: when the boundary file loads (get_features_by_polygon and
\* quick_spatial_query), the polygons are dissolved iff the file holds more
\* than one, reprojected iff its CRS is not EPSG:4326, dissolved before
\* reprojected, and every request is sent with one geometry in EPSG:4326.
C13_PreprocessBoundary ==
    /\ (/\ script \in {"04", "04_quick"} /\ load = "ok"
        /\ polygon_file.rows >= 1 /\ polygon_file.crs /= "none") =>
           /\ boundary_gdf.ops =
                  (IF polygon_file.rows > 1 THEN <<"dissolve">> ELSE <<>>)
                  \o (IF polygon_file.crs /= "EPSG:4326" THEN <<"to_crs">>
                      ELSE <<>>)
           /\ boundary_gdf.rows = 1
           /\ boundary_gdf.crs = "EPSG:4326"
           /\ pc \notin {"load_boundary", "quick_load"}
    /\ (script \in {"04", "04_quick"} /\ lastReq /= "none") =>
           /\ boundary_gdf.rows = 1
           /\ boundary_gdf.crs = "EPSG:4326"

C13_Witness ==
    /\ script = "04" /\ load = "ok"
    /\ polygon_file.rows = 3 /\ polygon_file.crs = "EPSG:28356"
    /\ boundary_gdf = [rows |-> 1, crs |-> "EPSG:4326",
                       ops |-> <<"dissolve", "to_crs">>]
    /\ lastReq \in DataKinds

\* C14: in fetch_with_pagination a parsed response without 'features' is an
\* empty page: the loop stops at once, no retry and no error, and the
\* features of the earlier pages are returned (and saved) as the result.
C14_MissingFeaturesIsEmptyPage ==
    (Paginated02 /\ outcome = "no_features") =>
        /\ pc = "done"
        /\ error = "none"
        /\ features = <<>>
        /\ all_features = ServerPage(server_count, 0, offset)
        /\ Len(all_features) = offset
        /\ output_file = <<all_features>>

C14_Witness ==
    /\ Paginated02 /\ outcome = "no_features" /\ pc = "done"
    /\ pages_ok >= 2 /\ all_features /= <<>>
    /\ Len(all_features) < server_count
    /\ output_file = <<all_features>>

\* C15: whenever fetch_with_pagination is about to issue a page request
\* (first attempt or retry), offset equals the number of features
\* accumulated and is a multiple of page_size, and the offsets fetched so
\* far are exactly 0, page_size, ... below it; a failed attempt changes
\* neither offset nor the accumulated features.
C15_OffsetTracksFeatures ==
    [][/\ (script' = "02" /\ pc' = "fetch_with_pagination") =>
              /\ offset' = Len(all_features')
              /\ offset' % page_size' = 0
              /\ fetched' = {k * page_size' : k \in 0..(pages_ok' - 1)}
              /\ offset' = pages_ok' * page_size'
       /\ (script = "02" /\ pc = "fetch_with_pagination"
           /\ outcome' \in {"error", "malformed"}) =>
              UNCHANGED <<offset, all_features, fetched, pages_ok>>
      ]_vars

C15_Witness ==
    /\ Paginated02 /\ pc = "fetch_with_pagination"
    /\ attempt >= 1 /\ outcome = "error"
    /\ offset >= 2 * page_size /\ offset = Len(all_features)

\* C16: get_features_by_polygon sends paged requests iff the count probe
\* succeeded with a count greater than chunk_size; otherwise it sends one
\* request without resultOffset/resultRecordCount, right after the probe,
\* and the run is over after it whatever it returned.
C16_PagedIffCountExceedsChunk ==
    script = "04" =>
        /\ used /= {} =>
               used = (IF total_count /= None /\ total_count > chunk_size
                       THEN {"paged"} ELSE {"unbounded"})
        /\ lastReq = "unbounded" =>
               /\ prevReq = "count"
               /\ pc \in {"done", "returned_none"}
               /\ pages_ok <= 1
               /\ offset = 0
               /\ ~ENABLED (\E o \in Outcomes : FetchChunk(o))

C16_Witness ==
    /\ script = "04" /\ total_count = None
    /\ lastReq = "unbounded" /\ outcome = "ok" /\ pc = "done"
    /\ Len(all_features) > chunk_size
    /\ Len(all_features) = server_count

====
